---- MODULE Spec2Model ----
(***************************************************************************)
(* Model of pkg/workflows/steps/provider/preprovision.go:                  *)
(* the composite step StepPreProvision, which resolves the per-provider    *)
(* list of pre-provisioning steps and runs them one after another against  *)
(* one shared configuration.                                               *)
(*                                                                         *)
(* An error value is modelled as its message chain, outermost message      *)
(* first (github.com/pkg/errors); the nil error is the empty chain.        *)
(***************************************************************************)
EXTENDS Integers, Sequences, FiniteSets

VARIABLES
    registry,      \* step names that have an instance in the step registry
    cfg,           \* the *steps.Config handed to Run (possibly nil)
    ctxCancelled,  \* whether the run's context has been cancelled
    pc,            \* position of StepPreProvision.Run
    steps,         \* the slice returned by prepProvisionStepFor
    idx,           \* 1-based position of the range loop over steps
    retErr,        \* the error returned by StepPreProvision.Run
    log,           \* calls and returns of the inner steps' Run, in order
    rollbackLog,   \* steps whose Rollback has been invoked, in order
    rollbackFails, \* the steps whose Rollback returns an error when invoked
    rbCalls,       \* the calls of StepPreProvision.Rollback: where Run stood
    rbRet,         \* what the last call of StepPreProvision.Rollback returned
    runs,          \* the concurrent runs of StepPreProvision.Run, by run id
    svc,           \* the kube Service: which of its fields are set
    storage,       \* the storage behind the kube Service: raw value by key
    stored,        \* what the callers were told: the record created under each ID
    kret,          \* the last operation on the kube Service and its result
    rgiIn,         \* the API resource lists handed to resourcesGroupInfo
    rgiOut         \* the map resourcesGroupInfo returned for rgiIn

\* the state outside a single run of StepPreProvision.Run
outsideRun == <<rbCalls, rbRet, runs, svc, storage, stored, kret, rgiIn, rgiOut>>

vars == <<registry, cfg, ctxCancelled, pc, steps, idx, retErr, log, rollbackLog,
          rollbackFails, rbCalls, rbRet, runs, svc, storage, stored, kret, rgiIn, rgiOut>>

----------------------------------------------------------------------------
(* Names *)

PreProvisionStep == "preProvision"

\* clouds.Name values; UnknownProvider stands for any name the switch of
\* prepProvisionStepFor has no case for
AWS == "aws"
DigitalOcean == "digitalocean"
GCE == "gce"
Azure == "azure"
UnknownProvider == "openstack"

KnownProviders == {AWS, DigitalOcean, GCE, Azure}
Providers == KnownProviders \cup {UnknownProvider}

\* step names: each constant of the amazon and azure packages is represented
\* by its qualified Go identifier
StepFindAMI == "amazon.StepFindAMI"
StepCreateVPC == "amazon.StepCreateVPC"
StepCreateSecurityGroups == "amazon.StepCreateSecurityGroups"
StepNameCreateInstanceProfiles == "amazon.StepNameCreateInstanceProfiles"
StepImportKeyPair == "amazon.StepImportKeyPair"
StepCreateInternetGateway == "amazon.StepCreateInternetGateway"
StepCreateSubnets == "amazon.StepCreateSubnets"
StepCreateRouteTable == "amazon.StepCreateRouteTable"
StepAssociateRouteTable == "amazon.StepAssociateRouteTable"
CreateGroupStepName == "azure.CreateGroupStepName"
CreateVNetStepName == "azure.CreateVNetStepName"

AmazonSteps ==
    {StepFindAMI, StepCreateVPC, StepCreateSecurityGroups,
     StepNameCreateInstanceProfiles, StepImportKeyPair,
     StepCreateInternetGateway, StepCreateSubnets, StepCreateRouteTable,
     StepAssociateRouteTable}
AzureSteps == {CreateGroupStepName, CreateVNetStepName}
AllSteps == AmazonSteps \cup AzureSteps

\* the nil steps.Step interface value
NilStep == "<nil>"

\* the nil *steps.Config
NilConfig == [isNil |-> TRUE, Provider |-> "", outputs |-> {}]

MkConfig(provider) == [isNil |-> FALSE, Provider |-> provider, outputs |-> {}]

----------------------------------------------------------------------------
(* Errors: github.com/pkg/errors *)

NoErr == <<>>

\* errors.New(message)
New(message) == <<message>>

\* a Wrap that replaces the error instead of keeping it as the cause
WrapDropsCause(err, message) == IF err = NoErr THEN NoErr ELSE <<message>>

\* errors.Wrap(err, message): nil stays nil, otherwise message is prepended
Wrap(err, message) == IF err = NoErr THEN NoErr ELSE <<message>> \o err

\* errors.Cause(err): the innermost error of the chain
Cause(err) == IF err = NoErr THEN NoErr ELSE <<err[Len(err)]>>

\* whether a message occurs somewhere in the chain of err
Mentions(err, message) == \E k \in 1..Len(err) : err[k] = message

----------------------------------------------------------------------------
(* The step registry and the per-provider step list *)

\* steps.GetStep(name): the registered instance, or nil
GetStep(name) == IF name \in registry THEN name ELSE NilStep

\* a resolver whose unknown-provider case yields an empty list and no error
prepProvisionStepForNoDefault(provider) ==
    CASE provider = AWS ->
           [steps |-> <<GetStep(StepFindAMI),
                        GetStep(StepCreateVPC),
                        GetStep(StepCreateSecurityGroups),
                        GetStep(StepNameCreateInstanceProfiles),
                        GetStep(StepImportKeyPair),
                        GetStep(StepCreateInternetGateway),
                        GetStep(StepCreateSubnets),
                        GetStep(StepCreateRouteTable),
                        GetStep(StepAssociateRouteTable)>>,
            err |-> NoErr]
      [] provider = Azure ->
           [steps |-> <<GetStep(CreateGroupStepName),
                        GetStep(CreateVNetStepName)>>,
            err |-> NoErr]
      [] OTHER -> [steps |-> <<>>, err |-> NoErr]

\* a resolver whose GCE case falls into the Azure list
prepProvisionStepForGCEAsAzure(provider) ==
    CASE provider = AWS ->
           [steps |-> <<GetStep(StepFindAMI),
                        GetStep(StepCreateVPC),
                        GetStep(StepCreateSecurityGroups),
                        GetStep(StepNameCreateInstanceProfiles),
                        GetStep(StepImportKeyPair),
                        GetStep(StepCreateInternetGateway),
                        GetStep(StepCreateSubnets),
                        GetStep(StepCreateRouteTable),
                        GetStep(StepAssociateRouteTable)>>,
            err |-> NoErr]
      [] provider = DigitalOcean -> [steps |-> <<>>, err |-> NoErr]
      [] provider \in {GCE, Azure} ->
           [steps |-> <<GetStep(CreateGroupStepName),
                        GetStep(CreateVNetStepName)>>,
            err |-> NoErr]
      [] OTHER ->
           [steps |-> <<>>, err |-> New("unknown provider: " \o provider)]

\* a resolver whose AWS list creates the route table before the subnets
prepProvisionStepForRouteTableEarly(provider) ==
    CASE provider = AWS ->
           [steps |-> <<GetStep(StepFindAMI),
                        GetStep(StepCreateVPC),
                        GetStep(StepCreateSecurityGroups),
                        GetStep(StepNameCreateInstanceProfiles),
                        GetStep(StepImportKeyPair),
                        GetStep(StepCreateInternetGateway),
                        GetStep(StepCreateRouteTable),
                        GetStep(StepCreateSubnets),
                        GetStep(StepAssociateRouteTable)>>,
            err |-> NoErr]
      [] provider = DigitalOcean -> [steps |-> <<>>, err |-> NoErr]
      [] provider = GCE -> [steps |-> <<>>, err |-> NoErr]
      [] provider = Azure ->
           [steps |-> <<GetStep(CreateGroupStepName),
                        GetStep(CreateVNetStepName)>>,
            err |-> NoErr]
      [] OTHER ->
           [steps |-> <<>>, err |-> New("unknown provider: " \o provider)]

\* prepProvisionStepFor(provider): the (steps, error) pair
prepProvisionStepFor(provider) ==
    CASE provider = AWS ->
           [steps |-> <<GetStep(StepFindAMI),
                        GetStep(StepCreateVPC),
                        GetStep(StepCreateSecurityGroups),
                        GetStep(StepNameCreateInstanceProfiles),
                        GetStep(StepImportKeyPair),
                        GetStep(StepCreateInternetGateway),
                        GetStep(StepCreateSubnets),
                        GetStep(StepCreateRouteTable),
                        GetStep(StepAssociateRouteTable)>>,
            err |-> NoErr]
      [] provider = DigitalOcean -> [steps |-> <<>>, err |-> NoErr]
      [] provider = GCE -> [steps |-> <<>>, err |-> NoErr]
      [] provider = Azure ->
           [steps |-> <<GetStep(CreateGroupStepName),
                        GetStep(CreateVNetStepName)>>,
            err |-> NoErr]
      [] OTHER ->
           [steps |-> <<>>, err |-> New("unknown provider: " \o provider)]

----------------------------------------------------------------------------
(* The inner steps (Run of a registered steps.Step) *)

\* the errors step s can return from Run under the given context state
StepErrors(s, cancelled) ==
    {New("request failed"), Wrap(New("request failed"), s)}
        \cup (IF cancelled THEN {New("context canceled")} ELSE {})

\* what a step's successful Run leaves in the shared configuration
StepWrites(c, s) == [c EXCEPT !.outputs = @ \cup {s}]

\* the error the Rollback of step s returns when it fails
RollbackError(s) == Wrap(New("rollback failed"), s)

Event(kind, s, res) ==
    [ev |-> kind, step |-> s, res |-> res, cancelled |-> ctxCancelled]

Reverse(q) == [j \in 1..Len(q) |-> q[Len(q) + 1 - j]]

IsOkRet(e) == e.ev = "ret" /\ e.res = NoErr
IsCall(e) == e.ev = "call"

\* the steps whose Run has been invoked, in invocation order
Invoked == [j \in 1..Len(SelectSeq(log, IsCall)) |-> SelectSeq(log, IsCall)[j].step]

\* the steps whose Run has returned nil, in completion order
Completed == [j \in 1..Len(SelectSeq(log, IsOkRet)) |-> SelectSeq(log, IsOkRet)[j].step]

----------------------------------------------------------------------------
(* Initial states: a run about to start *)

\* how many catalog-listed steps may be absent from the registry
MaxMissing == 1

Registries ==
    {AllSteps \ m : m \in {x \in SUBSET AllSteps : Cardinality(x) <= MaxMissing}}
Configs == {NilConfig} \cup {MkConfig(p) : p \in Providers}

\* which steps' Rollback fails: any of the first two steps of the AWS list
RollbackFailures == SUBSET {StepFindAMI, StepCreateVPC}

\* how many times StepPreProvision.Rollback is called around one run
MaxRollbacks == 2

\* no concurrent runs
IdleRuns == runs = <<>>

\* no kube Service in use
IdleKube == svc = <<>> /\ storage = <<>> /\ stored = <<>> /\ kret = <<>>

\* no resourcesGroupInfo evaluation
IdleRGI == rgiIn = <<>> /\ rgiOut = <<>>

\* no single run of StepPreProvision.Run
IdleRun ==
    /\ cfg = NilConfig
    /\ ctxCancelled = FALSE
    /\ pc = "idle"
    /\ steps = <<>>
    /\ idx = 0
    /\ retErr = NoErr
    /\ log = <<>>
    /\ rollbackLog = <<>>
    /\ rollbackFails = {}
    /\ rbCalls = <<>>
    /\ rbRet = NoErr

Init ==
    /\ registry \in Registries
    /\ cfg \in Configs
    /\ ctxCancelled = FALSE
    /\ pc = "start"
    /\ steps = <<>>
    /\ idx = 0
    /\ retErr = NoErr
    /\ log = <<>>
    /\ rollbackLog = <<>>
    /\ rollbackFails \in RollbackFailures
    /\ rbCalls = <<>>
    /\ rbRet = NoErr
    /\ IdleRuns
    /\ IdleKube
    /\ IdleRGI

----------------------------------------------------------------------------
(* StepPreProvision.Run *)

\* a Run without the nil check: cfg.Provider dereferences nil
RunNilConfigDeref ==
    /\ pc = "start"
    /\ cfg.isNil
    /\ pc' = "panicked"
    /\ UNCHANGED <<registry, rollbackFails, cfg, ctxCancelled, steps, idx, retErr, log, rollbackLog>>
    /\ UNCHANGED outsideRun

\* if cfg == nil { return errors.New("invalid config") }
RunNilConfig ==
    /\ pc = "start"
    /\ cfg.isNil
    /\ retErr' = New("invalid config")
    /\ pc' = "done"
    /\ UNCHANGED <<registry, rollbackFails, cfg, ctxCancelled, steps, idx, log, rollbackLog>>
    /\ UNCHANGED outsideRun

\* a Run that returns the resolver's error as it is
RunResolveFailUnwrapped ==
    /\ pc = "start"
    /\ ~cfg.isNil
    /\ prepProvisionStepFor(cfg.Provider).err # NoErr
    /\ retErr' = prepProvisionStepFor(cfg.Provider).err
    /\ pc' = "done"
    /\ UNCHANGED <<registry, rollbackFails, cfg, ctxCancelled, steps, idx, log, rollbackLog>>
    /\ UNCHANGED outsideRun

\* steps, err := prepProvisionStepFor(cfg.Provider); err != nil
RunResolveFail ==
    /\ pc = "start"
    /\ ~cfg.isNil
    /\ prepProvisionStepFor(cfg.Provider).err # NoErr
    /\ retErr' = Wrap(prepProvisionStepFor(cfg.Provider).err, PreProvisionStep)
    /\ pc' = "done"
    /\ UNCHANGED <<registry, rollbackFails, cfg, ctxCancelled, steps, idx, log, rollbackLog>>
    /\ UNCHANGED outsideRun

\* steps, err := prepProvisionStepFor(cfg.Provider); err == nil
RunResolve ==
    /\ pc = "start"
    /\ ~cfg.isNil
    /\ prepProvisionStepFor(cfg.Provider).err = NoErr
    /\ steps' = prepProvisionStepFor(cfg.Provider).steps
    /\ idx' = 1
    /\ pc' = "loop"
    /\ UNCHANGED <<registry, rollbackFails, cfg, ctxCancelled, retErr, log, rollbackLog>>
    /\ UNCHANGED outsideRun

\* for _, s := range steps { s.Run(ctx, out, cfg) ... }: the call
StepCall ==
    /\ pc = "loop"
    /\ idx <= Len(steps)
    /\ steps[idx] # NilStep
    /\ log' = Append(log, Event("call", steps[idx], NoErr))
    /\ pc' = "inStep"
    /\ UNCHANGED <<registry, rollbackFails, cfg, ctxCancelled, steps, idx, retErr, rollbackLog>>
    /\ UNCHANGED outsideRun

\* s.Run on a nil steps.Step: nil pointer dereference, the run panics
StepCallNil ==
    /\ pc = "loop"
    /\ idx <= Len(steps)
    /\ steps[idx] = NilStep
    /\ pc' = "panicked"
    /\ UNCHANGED <<registry, rollbackFails, cfg, ctxCancelled, steps, idx, retErr, log, rollbackLog>>
    /\ UNCHANGED outsideRun

\* a loop that skips the step after a successful one
StepReturnOkSkips ==
    /\ pc = "inStep"
    /\ log' = Append(log, Event("ret", steps[idx], NoErr))
    /\ cfg' = StepWrites(cfg, steps[idx])
    /\ idx' = idx + 2
    /\ pc' = "loop"
    /\ UNCHANGED <<registry, rollbackFails, ctxCancelled, steps, retErr, rollbackLog>>
    /\ UNCHANGED outsideRun

\* s.Run returned nil: next iteration
StepReturnOk ==
    /\ pc = "inStep"
    /\ log' = Append(log, Event("ret", steps[idx], NoErr))
    /\ cfg' = StepWrites(cfg, steps[idx])
    /\ idx' = idx + 1
    /\ pc' = "loop"
    /\ UNCHANGED <<registry, rollbackFails, ctxCancelled, steps, retErr, rollbackLog>>
    /\ UNCHANGED outsideRun

\* a failure branch that logs the error and carries on with the next step
StepReturnErrContinues ==
    /\ pc = "inStep"
    /\ \E e \in StepErrors(steps[idx], ctxCancelled) :
          /\ log' = Append(log, Event("ret", steps[idx], e))
          /\ retErr' = Wrap(e, PreProvisionStep)
    /\ idx' = idx + 1
    /\ pc' = "loop"
    /\ UNCHANGED <<registry, rollbackFails, cfg, ctxCancelled, steps, rollbackLog>>
    /\ UNCHANGED outsideRun

\* s.Run returned err != nil: return errors.Wrap(err, PreProvisionStep)
StepReturnErr ==
    /\ pc = "inStep"
    /\ \E e \in StepErrors(steps[idx], ctxCancelled) :
          /\ log' = Append(log, Event("ret", steps[idx], e))
          /\ retErr' = Wrap(e, PreProvisionStep)
    /\ pc' = "done"
    /\ UNCHANGED <<registry, rollbackFails, cfg, ctxCancelled, steps, idx, rollbackLog>>
    /\ UNCHANGED outsideRun

\* the range loop is exhausted: return nil
RunReturnNil ==
    /\ pc = "loop"
    /\ idx > Len(steps)
    /\ retErr' = NoErr
    /\ pc' = "done"
    /\ UNCHANGED <<registry, rollbackFails, cfg, ctxCancelled, steps, idx, log, rollbackLog>>
    /\ UNCHANGED outsideRun

\* the caller cancels the context while the run is in progress
Cancel ==
    /\ pc \in {"start", "loop", "inStep"}
    /\ ~ctxCancelled
    /\ ctxCancelled' = TRUE
    /\ UNCHANGED <<registry, rollbackFails, cfg, pc, steps, idx, retErr, log, rollbackLog>>
    /\ UNCHANGED outsideRun

\* a Rollback that undoes the completed inner steps and fails when there
\* are none
RollbackUnwinds ==
    /\ pc \in {"start", "done"}
    /\ Len(rbCalls) < MaxRollbacks
    /\ rbCalls' = Append(rbCalls, pc)
    /\ rbRet' = IF Len(Completed) = 0 THEN New("nothing to roll back") ELSE NoErr
    /\ rollbackLog' = rollbackLog \o Reverse(Completed)
    /\ cfg' = [cfg EXCEPT !.outputs = {}]
    /\ UNCHANGED <<registry, rollbackFails, ctxCancelled, pc, steps, idx, retErr, log>>
    /\ UNCHANGED <<runs, svc, storage, stored, kret, rgiIn, rgiOut>>

\* StepPreProvision.Rollback: return nil, called before or after Run
Rollback ==
    /\ pc \in {"start", "done"}
    /\ Len(rbCalls) < MaxRollbacks
    /\ rbCalls' = Append(rbCalls, pc)
    /\ rbRet' = NoErr
    /\ UNCHANGED <<registry, rollbackFails, cfg, ctxCancelled, pc, steps, idx, retErr, log, rollbackLog>>
    /\ UNCHANGED <<runs, svc, storage, stored, kret, rgiIn, rgiOut>>

Next ==
    \/ Rollback
    \/ RunNilConfig
    \/ RunResolveFail
    \/ RunResolve
    \/ StepCall
    \/ StepCallNil
    \/ StepReturnOk
    \/ StepReturnErr
    \/ RunReturnNil
    \/ Cancel

Spec == Init /\ [][Next]_vars

----------------------------------------------------------------------------
(* Observations on a run *)

\* the run has returned nil
Succeeded == pc = "done" /\ retErr = NoErr

\* the run has returned because the Run of an inner step returned an error
Failed ==
    /\ pc = "done"
    /\ Len(log) > 0
    /\ log[Len(log)].ev = "ret"
    /\ log[Len(log)].res # NoErr

FailedStep == log[Len(log)].step
ForwardErr == log[Len(log)].res

\* how often Rollback has been invoked on step s
RollbackCount(s) == Cardinality({j \in 1..Len(rollbackLog) : rollbackLog[j] = s})

\* the step list the catalog yields for the run's provider
Resolved == prepProvisionStepFor(cfg.Provider).steps

----------------------------------------------------------------------------
(* Properties *)

\* C1: a successful run for a known provider has invoked Run on s1..sn
\* exactly once each, in pipeline order, each call following the successful
\* return of the previous step.
Thm_C1_OrderedRuns ==
    (Succeeded /\ ~cfg.isNil /\ cfg.Provider \in KnownProviders) =>
        /\ Len(log) = 2 * Len(steps)
        /\ \A i \in 1..Len(steps) :
              /\ steps[i] # NilStep
              /\ log[2 * i - 1].ev = "call"
              /\ log[2 * i - 1].step = steps[i]
              /\ log[2 * i].ev = "ret"
              /\ log[2 * i].step = steps[i]
              /\ log[2 * i].res = NoErr
        /\ \A i \in 1..Len(steps) :
              Cardinality({j \in 1..Len(Invoked) : Invoked[j] = steps[i]}) = 1

Wit_C1_AwsSucceeded ==
    Succeeded /\ ~cfg.isNil /\ cfg.Provider = AWS /\ Len(log) = 18

\* C2 (as stated): when step sk fails, Rollback has been invoked, by the time
\* the run returns, on exactly s(k-1), ..., s1 in reverse order of completion.
Orig_C2_RollbackReverse ==
    Failed => rollbackLog = Reverse(Completed)

\* C3: the forward pass stops at the first failure (an error return is the
\* last event of the run and the run then returns an error), and the run
\* returns nil only if every step of the resolved pipeline was invoked and
\* returned nil.
Thm_C3_StopAtFirstFailure ==
    /\ \A j \in 1..Len(log) :
          (log[j].ev = "ret" /\ log[j].res # NoErr) =>
              /\ j = Len(log)
              /\ pc = "done"
              /\ retErr # NoErr
    /\ (Succeeded /\ ~cfg.isNil) =>
          \A i \in 1..Len(Resolved) :
              /\ \E j \in 1..Len(log) :
                    log[j].ev = "call" /\ log[j].step = Resolved[i]
              /\ \E j \in 1..Len(log) :
                    IsOkRet(log[j]) /\ log[j].step = Resolved[i]

Wit_C3_FailedMidway ==
    Failed /\ idx >= 2 /\ idx < Len(steps)

\* C4: with a provider outside the known set the run returns the
\* unknown-provider error and no step's Run or Rollback is ever invoked.
Thm_C4_UnknownProvider ==
    (~cfg.isNil /\ cfg.Provider \notin KnownProviders) =>
        /\ pc \in {"start", "done"}
        /\ log = <<>>
        /\ rollbackLog = <<>>
        /\ pc = "done" =>
              /\ retErr # NoErr
              /\ Cause(retErr) = New("unknown provider: " \o cfg.Provider)

Wit_C4_UnknownReturned ==
    pc = "done" /\ ~cfg.isNil /\ cfg.Provider = UnknownProvider

\* C5: with a nil configuration the run returns an error at once: it never
\* panics, never resolves a step list and invokes no Run or Rollback.
Thm_C5_NilConfig ==
    cfg.isNil =>
        /\ pc \in {"start", "done"}
        /\ idx = 0
        /\ steps = <<>>
        /\ log = <<>>
        /\ rollbackLog = <<>>
        /\ pc = "done" => retErr # NoErr

Wit_C5_NilReturned ==
    pc = "done" /\ cfg.isNil /\ retErr = New("invalid config")

\* C6 (as stated): when a step of the provider's list is absent from the
\* registry, the run never crashes and never reports success.
Orig_C6_MissingStepIsError ==
    (~cfg.isNil /\ \E i \in 1..Len(Resolved) : Resolved[i] = NilStep) =>
        /\ pc # "panicked"
        /\ pc = "done" => retErr # NoErr

\* C7: for DigitalOcean and GCE the run returns nil, invokes no Run and no
\* Rollback, and never changes the configuration.
Thm_C7_EmptyPipeline ==
    /\ [](( ~cfg.isNil /\ cfg.Provider \in {DigitalOcean, GCE}) =>
            /\ log = <<>>
            /\ rollbackLog = <<>>
            /\ pc \in {"start", "loop", "done"}
            /\ pc = "done" => retErr = NoErr)
    /\ [][(~cfg.isNil /\ cfg.Provider \in {DigitalOcean, GCE}) => cfg' = cfg]_vars

Wit_C7_GceReturned ==
    pc = "done" /\ ~cfg.isNil /\ cfg.Provider = GCE /\ retErr = NoErr

\* the context was cancelled after the k-th step returned nil and before the
\* next step was started
CancelledAfter(k) ==
    /\ Len(log) >= 2 * k
    /\ IsOkRet(log[2 * k])
    /\ ~log[2 * k].cancelled
    /\ \/ Len(log) = 2 * k /\ ctxCancelled
       \/ Len(log) > 2 * k /\ log[2 * k + 1].cancelled

\* C8 (as stated): a cancellation between sk and s(k+1) keeps s(k+1)..sn from
\* running, rolls s1..sk back and makes the run return an error.
Orig_C8_CancelStopsPipeline ==
    \A k \in 1..(Len(steps) - 1) :
        CancelledAfter(k) =>
            /\ Len(log) = 2 * k
            /\ pc = "done" =>
                  /\ retErr # NoErr
                  /\ \A j \in 1..k : RollbackCount(steps[j]) = 1

\* C9 (as stated): when the Run of a step fails after steps whose Rollback
\* returns an error have completed, the unwind is not cut short by those
\* errors: Rollback has been invoked on every completed step, on each exactly
\* once, and the returned error carries every rollback error that occurred
\* together with the forward error.
Orig_C9_RollbackErrorsCollected ==
    (Failed /\ \E j \in 1..Len(Completed) : Completed[j] \in rollbackFails) =>
        /\ \A j \in 1..Len(Completed) : RollbackCount(Completed[j]) = 1
        /\ \A j \in 1..Len(Completed) :
              Completed[j] \in rollbackFails =>
                  \A k \in 1..Len(RollbackError(Completed[j])) :
                      Mentions(retErr, RollbackError(Completed[j])[k])
        /\ \A k \in 1..Len(ForwardErr) : Mentions(retErr, ForwardErr[k])

\* C10 (as stated): the returned error carries the stage name, the name of
\* the failing step and the underlying error.
Orig_C10_ErrorNamesStep ==
    Failed =>
        /\ Mentions(retErr, PreProvisionStep)
        /\ Mentions(retErr, FailedStep)
        /\ Cause(retErr) = Cause(ForwardErr)

\* C10 (amended): the returned error is the step's error E wrapped with the
\* stage name "preProvision": it carries the stage name and E, and it names
\* the failing step exactly when E itself does.
Thm_C10_ErrorAttribution ==
    Failed =>
        /\ Head(retErr) = PreProvisionStep
        /\ Tail(retErr) = ForwardErr
        /\ Cause(retErr) = Cause(ForwardErr)
        /\ Mentions(retErr, FailedStep) <=> Mentions(ForwardErr, FailedStep)

Wit_C10_FailedWithoutStepName ==
    Failed /\ ~Mentions(ForwardErr, FailedStep) /\ Head(retErr) = PreProvisionStep

----------------------------------------------------------------------------
(* StepPreProvision.Rollback *)

\* C11: StepPreProvision.Rollback returns nil and changes nothing (not the
\* configuration, not the run, no inner step is rolled back), whether it is
\* called before Run, after a failed or a successful Run, or repeatedly.
Thm_C11_RollbackNoOp ==
    /\ [](rbRet = NoErr)
    /\ [][rbCalls' # rbCalls =>
             /\ rbRet' = NoErr
             /\ cfg' = cfg
             /\ rollbackLog' = rollbackLog
             /\ log' = log
             /\ retErr' = retErr
             /\ pc' = pc
             /\ registry' = registry]_vars

Wit_C11_RollbackBeforeAndAfterFailure ==
    /\ rbCalls = <<"start", "done">>
    /\ Failed
    /\ Len(Completed) >= 1
    /\ cfg.outputs # {}

----------------------------------------------------------------------------
(* Concurrent runs of StepPreProvision.Run, one goroutine each.  The runs  *)
(* share the step registry and the stateless StepPreProvision value; each  *)
(* has its own configuration and its own output sink.                      *)

RunIds == {1, 2}

\* run r about to start on its own configuration for provider p
NewRun(p) ==
    [cfg |-> MkConfig(p), pc |-> "start", steps |-> <<>>, idx |-> 0,
     retErr |-> NoErr, log |-> <<>>]

\* a call or return of an inner step's Run, with the run whose configuration
\* and sink were handed to it
RunEvent(kind, s, res, r) ==
    [ev |-> kind, step |-> s, res |-> res, cfgOf |-> r, outOf |-> r]

InitConc ==
    /\ registry \in Registries
    /\ runs \in [RunIds -> {NewRun(p) : p \in Providers}]
    /\ IdleRun
    /\ IdleKube
    /\ IdleRGI

ConcFrame ==
    UNCHANGED <<registry, rollbackFails, cfg, ctxCancelled, pc, steps, idx, retErr, log,
                rollbackLog, rbCalls, rbRet, svc, storage, stored, kret,
                rgiIn, rgiOut>>

\* steps, err := prepProvisionStepFor(cfg.Provider); err != nil
ConcResolveFail(r) ==
    /\ runs[r].pc = "start"
    /\ prepProvisionStepFor(runs[r].cfg.Provider).err # NoErr
    /\ runs' = [runs EXCEPT
                  ![r].retErr = Wrap(prepProvisionStepFor(runs[r].cfg.Provider).err,
                                     PreProvisionStep),
                  ![r].pc = "done"]
    /\ ConcFrame

\* steps, err := prepProvisionStepFor(cfg.Provider); err == nil
ConcResolve(r) ==
    /\ runs[r].pc = "start"
    /\ prepProvisionStepFor(runs[r].cfg.Provider).err = NoErr
    /\ runs' = [runs EXCEPT
                  ![r].steps = prepProvisionStepFor(runs[r].cfg.Provider).steps,
                  ![r].idx = 1,
                  ![r].pc = "loop"]
    /\ ConcFrame

\* s.Run(ctx, out, cfg): the call
ConcStepCall(r) ==
    /\ runs[r].pc = "loop"
    /\ runs[r].idx <= Len(runs[r].steps)
    /\ runs[r].steps[runs[r].idx] # NilStep
    /\ runs' = [runs EXCEPT
                  ![r].log = Append(@, RunEvent("call", runs[r].steps[runs[r].idx],
                                                NoErr, r)),
                  ![r].pc = "inStep"]
    /\ ConcFrame

\* s.Run on a nil steps.Step panics in the goroutine of run r; unless the
\* caller of that goroutine recovers, the panic terminates the program and
\* with it every run that has not returned yet
ConcStepCallNil(r) ==
    /\ runs[r].pc = "loop"
    /\ runs[r].idx <= Len(runs[r].steps)
    /\ runs[r].steps[runs[r].idx] = NilStep
    /\ \E recovered \in BOOLEAN :
          runs' = [q \in RunIds |->
                     IF q = r THEN [runs[q] EXCEPT !.pc = "panicked"]
                     ELSE IF ~recovered /\ runs[q].pc \notin {"done", "panicked"}
                          THEN [runs[q] EXCEPT !.pc = "killed"]
                          ELSE runs[q]]
    /\ ConcFrame

\* s.Run returned nil: next iteration
ConcStepReturnOk(r) ==
    /\ runs[r].pc = "inStep"
    /\ runs' = [runs EXCEPT
                  ![r].log = Append(@, RunEvent("ret", runs[r].steps[runs[r].idx],
                                                NoErr, r)),
                  ![r].cfg = StepWrites(@, runs[r].steps[runs[r].idx]),
                  ![r].idx = @ + 1,
                  ![r].pc = "loop"]
    /\ ConcFrame

\* s.Run returned err != nil: return errors.Wrap(err, PreProvisionStep)
ConcStepReturnErr(r) ==
    /\ runs[r].pc = "inStep"
    /\ \E e \in StepErrors(runs[r].steps[runs[r].idx], FALSE) :
          runs' = [runs EXCEPT
                     ![r].log = Append(@, RunEvent("ret", runs[r].steps[runs[r].idx],
                                                   e, r)),
                     ![r].retErr = Wrap(e, PreProvisionStep),
                     ![r].pc = "done"]
    /\ ConcFrame

\* the range loop is exhausted: return nil
ConcReturnNil(r) ==
    /\ runs[r].pc = "loop"
    /\ runs[r].idx > Len(runs[r].steps)
    /\ runs' = [runs EXCEPT ![r].retErr = NoErr, ![r].pc = "done"]
    /\ ConcFrame

NextConc ==
    \E r \in RunIds :
        \/ ConcResolveFail(r)
        \/ ConcResolve(r)
        \/ ConcStepCall(r)
        \/ ConcStepCallNil(r)
        \/ ConcStepReturnOk(r)
        \/ ConcStepReturnErr(r)
        \/ ConcReturnNil(r)

SpecConc == InitConc /\ [][NextConc]_vars

\* the step list of run r's own provider
OwnPipeline(r) == prepProvisionStepFor(runs[r].cfg.Provider).steps

\* the log of run r is a run of its own pipeline on its own configuration
\* and sink: the i-th call and return are those of the i-th step
OwnSequence(r) ==
    \A j \in 1..Len(runs[r].log) :
        /\ runs[r].log[j].cfgOf = r
        /\ runs[r].log[j].outOf = r
        /\ (j + 1) \div 2 <= Len(OwnPipeline(r))
        /\ runs[r].log[j].step = OwnPipeline(r)[(j + 1) \div 2]
        /\ runs[r].log[j].ev = (IF j % 2 = 1 THEN "call" ELSE "ret")

\* what run r returns is what its own steps' results make it return alone
OwnResult(r) ==
    runs[r].pc = "done" =>
        IF prepProvisionStepFor(runs[r].cfg.Provider).err # NoErr
           THEN runs[r].retErr =
                   Wrap(prepProvisionStepFor(runs[r].cfg.Provider).err, PreProvisionStep)
        ELSE IF Len(runs[r].log) > 0 /\ runs[r].log[Len(runs[r].log)].res # NoErr
           THEN runs[r].retErr =
                   Wrap(runs[r].log[Len(runs[r].log)].res, PreProvisionStep)
        ELSE /\ runs[r].retErr = NoErr
             /\ Len(runs[r].log) = 2 * Len(OwnPipeline(r))

\* C12 (as stated): concurrent runs do not interfere: each run works through
\* its own provider's steps with its own configuration and sink, is never
\* cut short by the other run, and returns what it returns alone.
Orig_C12_RunsIndependent ==
    \A r \in RunIds :
        /\ runs[r].pc # "killed"
        /\ OwnSequence(r)
        /\ OwnResult(r)

\* the part of C12 that does not depend on a run surviving the other's panic
Aux_C12_OwnStepsAndResult ==
    \A r \in RunIds : OwnSequence(r) /\ OwnResult(r)

----------------------------------------------------------------------------
(* Order of the per-provider step lists *)

\* whenever the Run of step b has been invoked, the Run of step a had
\* returned nil before
OkBefore(a, b) ==
    \A j \in 1..Len(log) :
        (log[j].ev = "call" /\ log[j].step = b) =>
            \E i \in 1..(j - 1) : IsOkRet(log[i]) /\ log[i].step = a

\* C13: in every run create-VPC has succeeded before create-subnets starts,
\* create-internet-gateway and create-subnets before create-route-table,
\* create-route-table before associate-route-table, and for Azure
\* create-resource-group before create-virtual-network.
Thm_C13_DependencyOrder ==
    /\ OkBefore(StepCreateVPC, StepCreateSubnets)
    /\ OkBefore(StepCreateInternetGateway, StepCreateRouteTable)
    /\ OkBefore(StepCreateSubnets, StepCreateRouteTable)
    /\ OkBefore(StepCreateRouteTable, StepAssociateRouteTable)
    /\ OkBefore(CreateGroupStepName, CreateVNetStepName)

Wit_C13_AssociateStarted ==
    \E j \in 1..Len(log) :
        log[j].ev = "call" /\ log[j].step = StepAssociateRouteTable

\* C14 (as stated): every non-nil error Run returns is wrapped with the stage
\* name and keeps its cause underneath.
Orig_C14_AlwaysWrapped ==
    (pc = "done" /\ retErr # NoErr) =>
        Head(retErr) = PreProvisionStep /\ Len(retErr) >= 2

\* C14 (amended): an error Run returns for an unknown provider or a failing
\* inner step is that error wrapped with "preProvision", the cause kept;
\* the error for a nil configuration is the bare "invalid config", without
\* the stage name.
Thm_C14_WrappedExceptNilConfig ==
    (pc = "done" /\ retErr # NoErr) =>
        IF cfg.isNil
           THEN retErr = New("invalid config")
           ELSE /\ Head(retErr) = PreProvisionStep
                /\ Tail(retErr) =
                      (IF log = <<>>
                          THEN New("unknown provider: " \o cfg.Provider)
                          ELSE ForwardErr)
                /\ Tail(retErr) # NoErr

Wit_C14_UnknownProviderWrapped ==
    /\ pc = "done"
    /\ log = <<>>
    /\ Len(retErr) = 2
    /\ Head(retErr) = PreProvisionStep

----------------------------------------------------------------------------
(* Service.resourcesGroupInfo: the map from resource name to group version *)
(*                                                                         *)
(* A GroupVersion string is modelled as the sequence of its segments       *)
(* between "/" characters: "v1" is <<"v1">>, "apps/v1" is <<"apps", "v1">>.*)

\* schema.ParseGroupVersion(gv): the (GroupVersion, ok) pair
ParseGroupVersion(gv) ==
    IF gv = <<"">> \/ gv = <<"", "">>
       THEN [ok |-> TRUE, gv |-> [Group |-> "", Version |-> ""]]
    ELSE IF Len(gv) = 1
       THEN [ok |-> TRUE, gv |-> [Group |-> "", Version |-> gv[1]]]
    ELSE IF Len(gv) = 2
       THEN [ok |-> TRUE, gv |-> [Group |-> gv[1], Version |-> gv[2]]]
    ELSE [ok |-> FALSE, gv |-> [Group |-> "", Version |-> ""]]

\* m[key] = value on a Go map
MapSet(m, key, value) ==
    [x \in DOMAIN m \cup {key} |-> IF x = key THEN value ELSE m[x]]

\* the inner loop over apiResourceList.APIResources (lines 496-500): the
\* guard looks the resource's Kind up, the assignment is under its Name
RECURSIVE AddResources(_, _, _)
AddResources(m, resources, gv) ==
    IF resources = <<>> THEN m
    ELSE AddResources(
             IF Head(resources).Kind \notin DOMAIN m
                THEN MapSet(m, Head(resources).Name, gv)
                ELSE m,
             Tail(resources), gv)

\* the outer loop over apiResourceLists (lines 490-501)
RECURSIVE AddLists(_, _)
AddLists(m, lists) ==
    IF lists = <<>> THEN m
    ELSE AddLists(
             IF ParseGroupVersion(Head(lists).GroupVersion).ok
                THEN AddResources(m, Head(lists).APIResources,
                                  ParseGroupVersion(Head(lists).GroupVersion).gv)
                ELSE m,
             Tail(lists))

\* resourcesGroupInfo once client.ServerResources() has returned lists
resourcesGroupInfo(lists) == AddLists(<<>>, lists)

\* bounds of the server answers considered
MaxLists == 2
MaxResources == 2

SeqsUpTo(S, n) == UNION {[1..k -> S] : k \in 0..n}

APIResources ==
    {[Name |-> "pods", Kind |-> "Pod"],
     [Name |-> "deployments", Kind |-> "Deployment"],
     [Name |-> "nodes", Kind |-> "nodes"]}

GroupVersionStrings == {<<"v1">>, <<"apps", "v1">>, <<"a", "b", "c">>}

APIResourceLists ==
    {[GroupVersion |-> g, APIResources |-> rs] :
        g \in GroupVersionStrings, rs \in SeqsUpTo(APIResources, MaxResources)}

\* the answers of client.ServerResources() the kube Service is run against
ServerAnswers ==
    {<<[GroupVersion |-> <<"v1">>,
        APIResources |-> <<[Name |-> "pods", Kind |-> "Pod"]>>],
       [GroupVersion |-> <<"apps", "v1">>,
        APIResources |-> <<[Name |-> "deployments", Kind |-> "Deployment"]>>]>>}

InitRGI ==
    /\ rgiIn \in SeqsUpTo(APIResourceLists, MaxLists)
    /\ rgiOut = <<>>
    /\ registry = AllSteps
    /\ IdleRun
    /\ IdleRuns
    /\ IdleKube

\* evaluate resourcesGroupInfo on the server's answer
RGIReturn ==
    /\ rgiOut = <<>>
    /\ rgiOut' = <<resourcesGroupInfo(rgiIn)>>
    /\ UNCHANGED <<registry, rollbackFails, cfg, ctxCancelled, pc, steps, idx, retErr, log,
                   rollbackLog, rbCalls, rbRet, runs, svc, storage, stored,
                   kret, rgiIn>>

NextRGI == RGIReturn

SpecRGI == InitRGI /\ [][NextRGI]_vars

\* the positions of the lists whose group version parses and which list a
\* resource named n
ListsNaming(lists, n) ==
    {i \in 1..Len(lists) :
        /\ ParseGroupVersion(lists[i].GroupVersion).ok
        /\ \E j \in 1..Len(lists[i].APIResources) :
              lists[i].APIResources[j].Name = n}

Min(S) == CHOOSE x \in S : \A y \in S : x <= y

\* C16 (as stated): the returned map has exactly the resource names of the
\* lists whose group version parses, each with the group version of the
\* first such list that names it.
Orig_C16_FirstListWins ==
    rgiOut # <<>> =>
        \A n \in {r.Name : r \in APIResources} :
            IF ListsNaming(rgiIn, n) = {}
               THEN n \notin DOMAIN rgiOut[1]
               ELSE /\ n \in DOMAIN rgiOut[1]
                    /\ rgiOut[1][n] =
                          ParseGroupVersion(
                              rgiIn[Min(ListsNaming(rgiIn, n))].GroupVersion).gv

----------------------------------------------------------------------------
(* The kube Service: records in storage *)

ErrNotFound == New("entity not found")
ErrNilEntity == New("nil entity")
ErrNoHelmProxy == New("helm proxy constructor not found")

\* a nil []byte
NoRaw == <<>>

\* uuid.New()[:8]: the IDs the generator can produce
UUIDs == {"u1", "u2"}

\* the IDs a caller passes in model.Kube.ID; "" asks for a generated one
CallerIDs == {"", "a", "u1"}

KubeIDs == (CallerIDs \ {""}) \cup UUIDs
\* the values of model.Kube.Name; BadName stands for a Go string holding
\* the byte 0xff, which is not valid UTF-8
BadName == "n\\xff"
KubeNames == {"n1", BadName}

\* the *model.Kube values handed to Create
Kubes == [ID : CallerIDs, Name : KubeNames]

\* the Go strings that are not valid UTF-8
InvalidUTF8 == {BadName}

\* how encoding/json writes a string: coerced to valid UTF-8, each invalid
\* byte replaced by the Unicode replacement rune U+FFFD
ToValidUTF8(s) == IF s = BadName THEN "n\\ufffd" ELSE s

\* json.Marshal(k) for a model.Kube: the JSON text as its sequence of tokens,
\* an opening brace, key and value by turns, a closing brace
Marshal(k) == <<"{", "id", ToValidUTF8(k.ID), "name", ToValidUTF8(k.Name), "}">>

\* the value the JSON object raw holds for key, the zero string if it has none
FieldOf(raw, key) ==
    IF \E i \in 1..Len(raw) : i % 2 = 0 /\ raw[i] = key
       THEN raw[(CHOOSE i \in 1..Len(raw) : i % 2 = 0 /\ raw[i] = key) + 1]
       ELSE ""

\* json.Unmarshal(raw, k) into a fresh model.Kube: an error unless raw is one
\* JSON object
Unmarshal(raw) ==
    IF Len(raw) >= 2 /\ Len(raw) % 2 = 0 /\ raw[1] = "{" /\ raw[Len(raw)] = "}"
       THEN [k |-> [ID |-> FieldOf(raw, "id"), Name |-> FieldOf(raw, "name")],
             err |-> NoErr]
       ELSE [k |-> [ID |-> "", Name |-> ""],
             err |-> New("invalid character")]

\* NewService(prefix, s, chrtGetter): discoveryClientFn is not among the
\* fields it sets
NewService ==
    [discoveryClientFn |-> FALSE,
     clientForGroupFn |-> TRUE,
     corev1ClientFn |-> TRUE,
     newHelmProxyFn |-> TRUE]

\* a Service literal with every constructor set, and one with none
FullService ==
    [discoveryClientFn |-> TRUE,
     clientForGroupFn |-> TRUE,
     corev1ClientFn |-> TRUE,
     newHelmProxyFn |-> TRUE]

BareService ==
    [discoveryClientFn |-> FALSE,
     clientForGroupFn |-> FALSE,
     corev1ClientFn |-> FALSE,
     newHelmProxyFn |-> FALSE]

\* the result record of an operation on the Service
Result(op, arg, out, err, trace, panicked) ==
    [op |-> op, arg |-> arg, out |-> out, err |-> err, trace |-> trace,
     panicked |-> panicked]

InitKube ==
    /\ svc \in {NewService, FullService, BareService}
    /\ storage = [id \in KubeIDs |-> NoRaw]
    /\ stored = [id \in KubeIDs |-> {}]
    /\ kret = Result("none", <<>>, {}, NoErr, <<>>, FALSE)
    /\ rgiIn \in ServerAnswers
    /\ rgiOut = <<>>
    /\ registry = AllSteps
    /\ IdleRun
    /\ IdleRuns

KubeFrame ==
    UNCHANGED <<registry, rollbackFails, cfg, ctxCancelled, pc, steps, idx, retErr, log,
                rollbackLog, rbCalls, rbRet, runs, svc, rgiIn, rgiOut>>

\* what the callers have been told so far, after the result r: a Create that
\* returned nil puts its record under the record's ID, a Delete that returned
\* nil removes the record of its ID, everything else leaves it as it was
Observed(r) ==
    IF r.err # NoErr \/ r.op \notin {"Create", "Delete"}
       THEN stored
    ELSE IF r.op = "Create"
       THEN [stored EXCEPT ![(CHOOSE k \in r.out : TRUE).ID] = r.out]
    ELSE [stored EXCEPT ![r.arg] = {}]

\* a Create that always takes a generated ID
CreateAlwaysNewID(k) ==
    /\ ~kret.panicked
    /\ \E u \in UUIDs, putOk \in BOOLEAN :
          LET k2 == [k EXCEPT !.ID = u] IN
          IF putOk
             THEN /\ storage' = [storage EXCEPT ![k2.ID] = Marshal(k2)]
                  /\ kret' = Result("Create", k, {k2}, NoErr, <<"storage.Put">>, FALSE)
             ELSE /\ storage' = storage
                  /\ kret' = Result("Create", k, {k2},
                                    Wrap(New("put failed"), "storage: put"),
                                    <<"storage.Put">>, FALSE)
    /\ stored' = Observed(kret')
    /\ KubeFrame

\* Service.Create(ctx, k)
Create(k) ==
    /\ ~kret.panicked
    /\ \E u \in UUIDs, putOk \in BOOLEAN :
          LET k2 == IF k.ID = "" THEN [k EXCEPT !.ID = u] ELSE k IN
          IF putOk
             THEN /\ storage' = [storage EXCEPT ![k2.ID] = Marshal(k2)]
                  /\ kret' = Result("Create", k, {k2}, NoErr, <<"storage.Put">>, FALSE)
             ELSE /\ storage' = storage
                  /\ kret' = Result("Create", k, {k2},
                                    Wrap(New("put failed"), "storage: put"),
                                    <<"storage.Put">>, FALSE)
    /\ stored' = Observed(kret')
    /\ KubeFrame

\* Service.Get(ctx, kubeID): the (*model.Kube, error) pair, given whether the
\* read of the storage succeeds; a key the storage does not hold reads as nil
Get(kubeID, readOk) ==
    IF ~readOk
       THEN [k |-> {}, err |-> Wrap(New("get failed"), "storage: get")]
    ELSE IF storage[kubeID] = NoRaw
       THEN [k |-> {}, err |-> ErrNotFound]
    ELSE IF Unmarshal(storage[kubeID]).err # NoErr
       THEN [k |-> {}, err |-> Wrap(Unmarshal(storage[kubeID]).err, "unmarshal")]
    ELSE [k |-> {Unmarshal(storage[kubeID]).k}, err |-> NoErr]

\* a call of Service.Get
ServiceGet(kubeID) ==
    /\ ~kret.panicked
    /\ \E readOk \in BOOLEAN :
          kret' = Result("Get", [kubeID |-> kubeID, readOk |-> readOk],
                         Get(kubeID, readOk).k, Get(kubeID, readOk).err,
                         <<"storage.Get">>, FALSE)
    /\ UNCHANGED <<storage, stored>>
    /\ KubeFrame

\* Service.Delete(ctx, kubeID)
Delete(kubeID) ==
    /\ ~kret.panicked
    /\ \E delOk \in BOOLEAN :
          IF delOk
             THEN /\ storage' = [storage EXCEPT ![kubeID] = NoRaw]
                  /\ kret' = Result("Delete", kubeID, {}, NoErr,
                                    <<"storage.Delete">>, FALSE)
             ELSE /\ storage' = storage
                  /\ kret' = Result("Delete", kubeID, {}, New("delete failed"),
                                    <<"storage.Delete">>, FALSE)
    /\ stored' = Observed(kret')
    /\ KubeFrame

----------------------------------------------------------------------------
(* The kube Service: operations that build a client *)

\* strings.TrimSpace on the release names considered
TrimSpace(name) == IF name \in {"", " "} THEN "" ELSE name

\* ensureReleaseName(name): a generated name for a blank one
ensureReleaseName(name) ==
    IF TrimSpace(name) = "" THEN "moniker-name" ELSE name

\* the *ReleaseInput values handed to InstallRelease: nil, or one with a name
ReleaseInputs == {{}} \cup {{[Name |-> n]} : n \in {"", " ", "r1"}}

\* the resource names asked of GetKubeResources
ResourceNames == {"pods", "secrets"}

\* Service.helmClient(k), given whether the constructor call succeeds
helmClient(proxyOk) ==
    IF ~svc.newHelmProxyFn
       THEN [err |-> ErrNoHelmProxy, trace |-> <<>>]
    ELSE IF ~proxyOk
       THEN [err |-> New("helm proxy failed"), trace |-> <<"newHelmProxyFn">>]
    ELSE [err |-> NoErr, trace |-> <<"newHelmProxyFn">>]

\* an InstallRelease that looks the kube up before it fetches the chart and
\* goes on to Helm without a chart
InstallReleaseResultLookupFirst(kubeID, rls, chartOk, readOk, proxyOk, installOk) ==
    LET arg == [kubeID |-> kubeID, rls |-> rls, chartOk |-> chartOk,
                readOk |-> readOk, proxyOk |-> proxyOk, installOk |-> installOk] IN
    IF rls = {}
       THEN Result("InstallRelease", arg, {}, Wrap(ErrNilEntity, "release input"),
                   <<>>, FALSE)
    ELSE IF Get(kubeID, readOk).err # NoErr
       THEN Result("InstallRelease", arg, {}, Wrap(Get(kubeID, readOk).err, "get kube"),
                   <<"storage.Get">>, FALSE)
    ELSE IF helmClient(proxyOk).err # NoErr
       THEN Result("InstallRelease", arg, {},
                   Wrap(helmClient(proxyOk).err, "build helm proxy"),
                   <<"storage.Get", "chrtGetter.GetChart">> \o helmClient(proxyOk).trace,
                   FALSE)
    ELSE IF ~installOk
       THEN Result("InstallRelease", arg, {}, New("install failed"),
                   <<"storage.Get", "chrtGetter.GetChart", "newHelmProxyFn",
                     "InstallReleaseFromChart">>,
                   FALSE)
    ELSE Result("InstallRelease", arg,
                {[Name |-> ensureReleaseName((CHOOSE r \in rls : TRUE).Name)]}, NoErr,
                <<"storage.Get", "chrtGetter.GetChart", "newHelmProxyFn",
                  "InstallReleaseFromChart">>,
                FALSE)

\* Service.InstallRelease(ctx, kubeID, rls): the result and the collaborators
\* contacted, given how the chart fetch, the storage read, the proxy
\* constructor and the install call turn out
InstallReleaseResult(kubeID, rls, chartOk, readOk, proxyOk, installOk) ==
    LET arg == [kubeID |-> kubeID, rls |-> rls, chartOk |-> chartOk,
                readOk |-> readOk, proxyOk |-> proxyOk, installOk |-> installOk] IN
    IF rls = {}
       THEN Result("InstallRelease", arg, {}, Wrap(ErrNilEntity, "release input"),
                   <<>>, FALSE)
    ELSE IF ~chartOk
       THEN Result("InstallRelease", arg, {}, Wrap(New("chart failed"), "get chart"),
                   <<"chrtGetter.GetChart">>, FALSE)
    ELSE IF Get(kubeID, readOk).err # NoErr
       THEN Result("InstallRelease", arg, {}, Wrap(Get(kubeID, readOk).err, "get kube"),
                   <<"chrtGetter.GetChart", "storage.Get">>, FALSE)
    ELSE IF helmClient(proxyOk).err # NoErr
       THEN Result("InstallRelease", arg, {},
                   Wrap(helmClient(proxyOk).err, "build helm proxy"),
                   <<"chrtGetter.GetChart", "storage.Get">> \o helmClient(proxyOk).trace,
                   FALSE)
    ELSE IF ~installOk
       THEN Result("InstallRelease", arg, {}, New("install failed"),
                   <<"chrtGetter.GetChart", "storage.Get", "newHelmProxyFn",
                     "InstallReleaseFromChart">>,
                   FALSE)
    ELSE Result("InstallRelease", arg,
                {[Name |-> ensureReleaseName((CHOOSE r \in rls : TRUE).Name)]}, NoErr,
                <<"chrtGetter.GetChart", "storage.Get", "newHelmProxyFn",
                  "InstallReleaseFromChart">>,
                FALSE)

\* a call of Service.InstallRelease
InstallRelease(kubeID, rls) ==
    /\ ~kret.panicked
    /\ \E chartOk, readOk, proxyOk, installOk \in BOOLEAN :
          kret' = InstallReleaseResult(kubeID, rls, chartOk, readOk, proxyOk, installOk)
    /\ UNCHANGED <<storage, stored>>
    /\ KubeFrame

\* ReleaseDetails, ListReleases and DeleteRelease: Get, helmClient, then the
\* Helm call named by op
HelmOpResult(op, wrapMsg, kubeID, readOk, proxyOk, callOk) ==
    IF Get(kubeID, readOk).err # NoErr
       THEN Result(op, kubeID, {}, Wrap(Get(kubeID, readOk).err, "get kube"),
                   <<"storage.Get">>, FALSE)
    ELSE IF helmClient(proxyOk).err # NoErr
       THEN Result(op, kubeID, {}, Wrap(helmClient(proxyOk).err, "build helm proxy"),
                   <<"storage.Get">> \o helmClient(proxyOk).trace, FALSE)
    ELSE IF ~callOk
       THEN Result(op, kubeID, {}, Wrap(New("helm call failed"), wrapMsg),
                   <<"storage.Get", "newHelmProxyFn", op>>, FALSE)
    ELSE Result(op, kubeID, {op}, NoErr,
                <<"storage.Get", "newHelmProxyFn", op>>, FALSE)

\* a call of Service.ReleaseDetails
ReleaseDetails(kubeID) ==
    /\ ~kret.panicked
    /\ \E readOk, proxyOk, callOk \in BOOLEAN :
          kret' = HelmOpResult("ReleaseDetails", "get release details",
                               kubeID, readOk, proxyOk, callOk)
    /\ UNCHANGED <<storage, stored>>
    /\ KubeFrame

\* a call of Service.ListReleases
ListReleases(kubeID) ==
    /\ ~kret.panicked
    /\ \E readOk, proxyOk, callOk \in BOOLEAN :
          kret' = HelmOpResult("ListReleases", "list releases",
                               kubeID, readOk, proxyOk, callOk)
    /\ UNCHANGED <<storage, stored>>
    /\ KubeFrame

\* a call of Service.DeleteRelease
DeleteRelease(kubeID) ==
    /\ ~kret.panicked
    /\ \E readOk, proxyOk, callOk \in BOOLEAN :
          kret' = HelmOpResult("DeleteRelease", "delete releases",
                               kubeID, readOk, proxyOk, callOk)
    /\ UNCHANGED <<storage, stored>>
    /\ KubeFrame

\* Service.ListNodes(ctx, kube, role)
ListNodes ==
    /\ ~kret.panicked
    /\ \E clientOk, listOk \in BOOLEAN :
          kret' =
             IF ~svc.corev1ClientFn
                THEN Result("ListNodes", <<>>, {},
                            Wrap(ErrNilEntity, "corev1client builder"), <<>>, FALSE)
             ELSE IF ~clientOk
                THEN Result("ListNodes", <<>>, {}, New("client failed"),
                            <<"corev1ClientFn">>, FALSE)
             ELSE IF ~listOk
                THEN Result("ListNodes", <<>>, {}, New("list failed"),
                            <<"corev1ClientFn", "Nodes.List">>, FALSE)
             ELSE Result("ListNodes", <<>>, {"nodes"}, NoErr,
                         <<"corev1ClientFn", "Nodes.List">>, FALSE)
    /\ UNCHANGED <<storage, stored>>
    /\ KubeFrame

\* Service.resourcesGroupInfo(kube) inside the Service: s.discoveryClientFn
\* is called without a nil check, so a nil one panics
GroupInfo(discOk, resOk) ==
    IF ~svc.discoveryClientFn
       THEN [m |-> <<>>, err |-> NoErr, trace |-> <<"nil discoveryClientFn">>,
             panicked |-> TRUE]
    ELSE IF ~discOk
       THEN [m |-> <<>>, err |-> Wrap(New("client failed"), "get discovery client"),
             trace |-> <<"discoveryClientFn">>, panicked |-> FALSE]
    ELSE IF ~resOk
       THEN [m |-> <<>>, err |-> Wrap(New("discovery failed"), "get resources"),
             trace |-> <<"discoveryClientFn", "ServerResources">>, panicked |-> FALSE]
    ELSE [m |-> resourcesGroupInfo(rgiIn), err |-> NoErr,
          trace |-> <<"discoveryClientFn", "ServerResources">>, panicked |-> FALSE]

\* Service.ListKubeResources(ctx, kubeID)
ListKubeResources(kubeID) ==
    /\ ~kret.panicked
    /\ \E readOk, discOk, resOk \in BOOLEAN :
          LET gi == GroupInfo(discOk, resOk) IN
          kret' =
             IF Get(kubeID, readOk).err # NoErr
                THEN Result("ListKubeResources", kubeID, {},
                            Wrap(Get(kubeID, readOk).err, "get kube"), <<"storage.Get">>, FALSE)
             ELSE IF gi.panicked \/ gi.err # NoErr
                THEN Result("ListKubeResources", kubeID, {}, gi.err,
                            <<"storage.Get">> \o gi.trace, gi.panicked)
             ELSE Result("ListKubeResources", kubeID, {gi.m}, NoErr,
                         <<"storage.Get">> \o gi.trace, FALSE)
    /\ UNCHANGED <<storage, stored>>
    /\ KubeFrame

\* Service.GetKubeResources(ctx, kubeID, resource, ns, name):
\* s.clientForGroupFn is called without a nil check as well
GetKubeResources(kubeID, resource) ==
    /\ ~kret.panicked
    /\ \E readOk, discOk, resOk, clientOk, rawOk \in BOOLEAN :
          LET gi == GroupInfo(discOk, resOk)
              arg == [kubeID |-> kubeID, resource |-> resource]
          IN
          kret' =
             IF Get(kubeID, readOk).err # NoErr
                THEN Result("GetKubeResources", arg, {},
                            Wrap(Get(kubeID, readOk).err, "get kube"), <<"storage.Get">>, FALSE)
             ELSE IF gi.panicked \/ gi.err # NoErr
                THEN Result("GetKubeResources", arg, {}, gi.err,
                            <<"storage.Get">> \o gi.trace, gi.panicked)
             ELSE IF resource \notin DOMAIN gi.m
                THEN Result("GetKubeResources", arg, {}, ErrNotFound,
                            <<"storage.Get">> \o gi.trace, FALSE)
             ELSE IF ~svc.clientForGroupFn
                THEN Result("GetKubeResources", arg, {}, NoErr,
                            <<"storage.Get">> \o gi.trace \o <<"nil clientForGroupFn">>,
                            TRUE)
             ELSE IF ~clientOk
                THEN Result("GetKubeResources", arg, {},
                            Wrap(New("client failed"), "get kube client"),
                            <<"storage.Get">> \o gi.trace \o <<"clientForGroupFn">>,
                            FALSE)
             ELSE IF ~rawOk
                THEN Result("GetKubeResources", arg, {},
                            Wrap(New("request failed"), "get resources"),
                            <<"storage.Get">> \o gi.trace
                                \o <<"clientForGroupFn", "DoRaw">>,
                            FALSE)
             ELSE Result("GetKubeResources", arg, {gi.m[resource]}, NoErr,
                         <<"storage.Get">> \o gi.trace
                             \o <<"clientForGroupFn", "DoRaw">>,
                         FALSE)
    /\ UNCHANGED <<storage, stored>>
    /\ KubeFrame

NextKube ==
    \/ \E k \in Kubes : Create(k)
    \/ \E id \in KubeIDs : ServiceGet(id)
    \/ \E id \in KubeIDs : Delete(id)
    \/ \E id \in KubeIDs, rls \in ReleaseInputs : InstallRelease(id, rls)
    \/ \E id \in KubeIDs : ReleaseDetails(id)
    \/ \E id \in KubeIDs : ListReleases(id)
    \/ \E id \in KubeIDs : DeleteRelease(id)
    \/ ListNodes
    \/ \E id \in KubeIDs : ListKubeResources(id)
    \/ \E id \in KubeIDs, res \in ResourceNames : GetKubeResources(id, res)

SpecKube == InitKube /\ [][NextKube]_vars

----------------------------------------------------------------------------
(* Properties of the kube Service *)

\* the record model.Kube k comes back as after json.Marshal and
\* json.Unmarshal
Decoded(k) == [ID |-> ToValidUTF8(k.ID), Name |-> ToValidUTF8(k.Name)]

\* Create keeps a non-empty caller ID and generates one only for an empty ID
CreateKeepsID ==
    (kret.op = "Create" /\ kret.err = NoErr) =>
        \A k2 \in kret.out :
            /\ kret.arg.ID # "" => k2 = kret.arg
            /\ kret.arg.ID = "" => (k2.ID \in UUIDs /\ k2.Name = kret.arg.Name)
            /\ stored[k2.ID] = {k2}

\* C15 (as stated): Get of an ID returns a record equal to the one of the
\* last successful Create under that ID that no Delete has removed, and the
\* not-found error when there is none; Create keeps a non-empty caller ID and
\* generates one only for an empty ID.
Orig_C15_GetReturnsCreated ==
    /\ kret.op = "Get" =>
          IF stored[kret.arg.kubeID] = {}
             THEN kret.out = {} /\ kret.err = ErrNotFound
             ELSE kret.out = stored[kret.arg.kubeID] /\ kret.err = NoErr
    /\ CreateKeepsID

\* C15 (amended): a Get whose storage read fails returns no record and the
\* storage's error wrapped with "storage: get"; a Get whose read succeeds
\* returns the not-found error when no record is held under the ID and
\* otherwise, without error, the record of the last successful Create under
\* that ID that no Delete has removed, as JSON carries it: equal to the
\* created record when its strings are valid UTF-8, and with U+FFFD in place
\* of each invalid byte when not.  No held record fails to decode.  Create
\* keeps a non-empty caller ID and generates one only for an empty ID.
Thm_C15_StoreRoundTrip ==
    /\ \A id \in KubeIDs :
          /\ Get(id, FALSE) = [k |-> {}, err |-> <<"storage: get", "get failed">>]
          /\ IF stored[id] = {}
                THEN Get(id, TRUE) = [k |-> {}, err |-> ErrNotFound]
                ELSE /\ Get(id, TRUE).err = NoErr
                     /\ Get(id, TRUE).k = {Decoded(k) : k \in stored[id]}
                     /\ (\A k \in stored[id] : k.ID \notin InvalidUTF8
                                               /\ k.Name \notin InvalidUTF8) =>
                           Get(id, TRUE).k = stored[id]
    /\ kret.op = "Get" =>
          /\ kret.out = Get(kret.arg.kubeID, kret.arg.readOk).k
          /\ kret.err = Get(kret.arg.kubeID, kret.arg.readOk).err
          /\ ~Mentions(kret.err, "unmarshal")
          /\ (kret.out # {}) <=> (kret.err = NoErr)
          /\ kret.err = NoErr => (kret.arg.readOk /\ stored[kret.arg.kubeID] # {})
          /\ kret.err = ErrNotFound =>
                (kret.arg.readOk /\ stored[kret.arg.kubeID] = {})
    /\ CreateKeepsID
    /\ (kret.op = "Delete" /\ kret.err = NoErr) => stored[kret.arg] = {}

Wit_C15_GetAfterCreates ==
    /\ kret.op = "Get"
    /\ kret.err = NoErr
    /\ kret.arg.kubeID = "a"
    /\ stored["a"] = {[ID |-> "a", Name |-> BadName]}
    /\ kret.out = {[ID |-> "a", Name |-> "n\\ufffd"]}
    /\ \E u \in UUIDs : stored[u] # {} /\ Get(u, TRUE).k = stored[u]

\* C17 (as stated): on a Service built by NewService no operation calls a
\* constructor function that is nil.
Orig_C17_NoNilConstructorCall ==
    svc = NewService => ~kret.panicked

InstallOrder ==
    <<"chrtGetter.GetChart", "storage.Get", "newHelmProxyFn", "InstallReleaseFromChart">>

\* C18: InstallRelease contacts the chart getter, the record store, the
\* proxy constructor and Helm in that order, each only after the previous
\* one succeeded; a failure returns an error and ends the sequence, and a nil
\* release input contacts none of them.
Thm_C18_InstallSequence ==
    kret.op = "InstallRelease" =>
        /\ Len(kret.trace) <= 4
        /\ kret.trace = SubSeq(InstallOrder, 1, Len(kret.trace))
        /\ kret.arg.rls = {} => (kret.trace = <<>> /\ kret.err # NoErr)
        /\ Len(kret.trace) >= 1 => kret.arg.rls # {}
        /\ Len(kret.trace) >= 2 => kret.arg.chartOk
        /\ Len(kret.trace) >= 3 => stored[kret.arg.kubeID] # {}
        /\ Len(kret.trace) = 4 => (kret.arg.proxyOk /\ svc.newHelmProxyFn)
        /\ Len(kret.trace) < 4 => (kret.err # NoErr /\ kret.out = {})
        /\ kret.err = NoErr => (Len(kret.trace) = 4 /\ kret.arg.installOk)
        /\ (kret.arg.rls # {} /\ ~kret.arg.chartOk) => Len(kret.trace) = 1
        /\ (kret.arg.rls # {} /\ kret.arg.chartOk /\ stored[kret.arg.kubeID] = {}) =>
              Len(kret.trace) = 2

Wit_C18_Installed ==
    /\ kret.op = "InstallRelease"
    /\ kret.err = NoErr
    /\ kret.trace = InstallOrder
    /\ kret.out = {[Name |-> "moniker-name"]}

====
